---------------------------- MODULE Spec2Model ----------------------------
(***************************************************************************)
(* Model of packages/themes/tasks/build.js: the generator of the three     *)
(* SCSS modules of @carbon/themes (_tokens.scss, _mixins.scss and          *)
(* _theme-maps.scss), its metadata rewriting (transformMetadata), its      *)
(* top-level error handling, and the execution of the generated            *)
(* carbon--theme mixin.                                                    *)
(*                                                                         *)
(* Strings whose content matters (token names, role lines, aliases) are    *)
(* sequences of one-character strings; every other text is a sequence of   *)
(* string chunks, so that concatenation is \o throughout.                  *)
(***************************************************************************)
EXTENDS Integers, Sequences, FiniteSets, TLC

VARIABLES
    themes,        \* `themes` of ../lib: own-property list of <name, theme table>
    tokenColors,   \* `tokens.colors` of ../lib: the canonical token list
    metadataFile,  \* metadata.yml as read and parsed by yaml.safeLoad
    metadata,      \* the in-memory metadata object (mutated by transformMetadata)
    applications,  \* how many times transformMetadata has run on `metadata`
    pc,            \* position of build() and of the process
    tokensFile,    \* the three style sheet trees built by build()
    mixinsFile,
    themeMapsFile,
    disk,          \* the paths the run has created, each written in one call
    reported,      \* reporter messages, in order
    stderr,        \* errors printed by console.error
    rejection,     \* the error build()'s promise is rejected with, "" if none
    exitCode,      \* exit status of the node process, -1 while it runs
    sassGlobals,   \* Sass: global token variables of the consumer's style sheet
    sassStack,     \* Sass: call stack of carbon--theme invocations
    sassDefault,   \* Sass: value of the global $carbon--theme
    sassArg,       \* Sass: what the caller passes to @include carbon--theme
    sassPhase,     \* Sass: "before" | "running" | "content" | "after"
    sassCalls      \* Sass: invocations made by the mixin body itself

vars == <<themes, tokenColors, metadataFile, metadata, applications, pc,
          tokensFile, mixinsFile, themeMapsFile, disk, reported, stderr,
          rejection, exitCode, sassGlobals, sassStack, sassDefault, sassArg, sassPhase,
          sassCalls>>

inputVars == <<themes, tokenColors, metadataFile>>
buildVars == <<pc, tokensFile, mixinsFile, themeMapsFile, disk, reported,
               stderr, rejection, exitCode>>
sassVars == <<sassGlobals, sassStack, sassDefault, sassArg, sassPhase, sassCalls>>

----------------------------------------------------------------------------
(* Bounds of the input sets *)

MaxTokens == 2       \* length of the canonical token list
MaxThemeKeys == 2    \* tokens defined by one theme
MaxMetaTokens == 1   \* entries of metadata.tokens seen by build()
MaxNames == 2        \* entries of metadata.tokens given to transformMetadata
MaxRoleLen == 2      \* characters of a role line given to transformMetadata
MaxApplications == 2 \* applications of transformMetadata to one object
MaxDepth == 4        \* Sass call stack limit

----------------------------------------------------------------------------
(* Characters and strings *)

Digits == {"0", "1"}
Uppers == {"A", "B"}
ToLower(c) == IF c = "A" THEN "a" ELSE IF c = "B" THEN "b" ELSE c

\* raw token keys: one that is already canonical, one with a scale step, one
\* in camel case; "a" is a proper prefix of the other two
TokenNames == {<<"a">>, <<"a", "1">>, <<"a", "B">>}
Colors == {"#161616", "#ffffff"}

Some(x) == <<x>>
None == <<>>

\* sequences over S of length lo..hi
SeqsOf(S, lo, hi) == UNION {[1..n -> S] : n \in lo..hi}
Range(s) == {s[i] : i \in 1..Len(s)}
Distinct(s) == \A i, j \in 1..Len(s) : i # j => s[i] # s[j]

RECURSIVE Join(_, _)
\* Array.prototype.join
Join(lines, sep) ==
    IF Len(lines) = 0 THEN <<>>
    ELSE IF Len(lines) = 1 THEN lines[1]
    ELSE lines[1] \o sep \o Join(Tail(lines), sep)

RECURSIVE FlatMap(_, _)
\* Array.prototype.flatMap over a sequence, F(x) a sequence
FlatMap(F(_), s) ==
    IF Len(s) = 0 THEN <<>> ELSE F(s[1]) \o FlatMap(F, Tail(s))

\* Array.prototype.filter(Boolean) over a sequence of optional nodes
FilterBoolean(opts) == FlatMap(LAMBDA o : o, opts)

----------------------------------------------------------------------------
(* formatTokenName of ../lib: raw token key to canonical dashed name *)

RECURSIVE formatFrom(_, _)
formatFrom(token, i) ==
    IF i > Len(token) THEN <<>>
    ELSE IF token[i] \in Digits
        THEN <<"-">> \o SubSeq(token, i, Len(token))
    ELSE IF token[i] \in Uppers
        THEN <<"-", ToLower(token[i])>> \o formatFrom(token, i + 1)
    ELSE <<token[i]>> \o formatFrom(token, i + 1)

formatTokenName(token) == formatFrom(token, 1)

----------------------------------------------------------------------------
(* transformMetadata: token names in role lines and aliases rewritten *)

\* the alternative names[k] of namesRegEx matches line at position i
MatchAt(line, i, name) ==
    /\ i + Len(name) - 1 <= Len(line)
    /\ SubSeq(line, i, i + Len(name) - 1) = name

RECURSIVE FirstAlternative(_, _, _, _)
\* a JavaScript alternation a|b|c tries its alternatives left to right and
\* takes the first that matches at the position; 0 when none does
FirstAlternative(names, k, line, i) ==
    IF k > Len(names) THEN 0
    ELSE IF MatchAt(line, i, names[k]) THEN k
    ELSE FirstAlternative(names, k + 1, line, i)

\* the backquote character, written ' here: the lexer rejects it in a string
Backquote == "'"

\* '`$' + replaceMap[match] + '`', replaceMap[name] = formatTokenName(name)
Wrapped(match) ==
    <<Backquote, "$">> \o formatTokenName(match) \o <<Backquote>>

RECURSIVE ReplaceFrom(_, _, _)
\* role.replace(namesRegEx, ...) with the g flag: scan from the left, replace
\* each match and resume right after it
ReplaceFrom(names, line, i) ==
    IF i > Len(line) THEN <<>>
    ELSE LET k == FirstAlternative(names, 1, line, i)
         IN  IF k = 0
                 THEN <<line[i]>> \o ReplaceFrom(names, line, i + 1)
                 ELSE Wrapped(names[k])
                          \o ReplaceFrom(names, line, i + Len(names[k]))

ReplaceNames(names, line) == ReplaceFrom(names, line, 1)

\* if (token.alias): a present, non-empty string
AliasTruthy(token) == Len(token.alias) = 1 /\ Len(token.alias[1]) > 0

transformMetadata(m) ==
    LET names == [i \in 1..Len(m.tokens) |-> m.tokens[i].name]
        transformToken(token) ==
            [name |-> token.name,
             role |-> IF Len(token.role) = 1
                          THEN Some([j \in 1..Len(token.role[1]) |->
                                        ReplaceNames(names, token.role[1][j])])
                          ELSE None,
             alias |-> IF AliasTruthy(token)
                           THEN Some(formatTokenName(token.alias[1]))
                           ELSE token.alias,
             deprecated |-> token.deprecated]
    IN  [tokens |-> [i \in 1..Len(m.tokens) |-> transformToken(m.tokens[i])]]

----------------------------------------------------------------------------
(* Syntax tree nodes of @carbon/scss-generator (types) *)

Comment(value) == [type |-> "Comment", value |-> value]
Identifier(name) == [type |-> "Identifier", name |-> name]
SassString(value) == [type |-> "SassString", value |-> value]
SassColor(value) == [type |-> "SassColor", value |-> value]
SassMapProperty(key, value) ==
    [type |-> "SassMapProperty", key |-> key, value |-> value]
SassMap(properties) == [type |-> "SassMap", properties |-> properties]
CallExpression(callee, arguments) ==
    [type |-> "CallExpression", callee |-> callee, arguments |-> arguments]
\* t.Assignment({id, init, default, global}); an omitted flag is FALSE
Assignment(id, init, default, global) ==
    [type |-> "Assignment", id |-> id, init |-> init,
     default |-> default, global |-> global]
AssignmentPattern(left, right) ==
    [type |-> "AssignmentPattern", left |-> left, right |-> right]
BlockStatement(body) == [type |-> "BlockStatement", body |-> body]
AtContent == [type |-> "AtContent"]
LogicalExpression(left, operator, right) ==
    [type |-> "LogicalExpression", left |-> left, operator |-> operator,
     right |-> right]
IfStatement(test, consequent) ==
    [type |-> "IfStatement", test |-> test, consequent |-> consequent]
SassMixinCall(id) == [type |-> "SassMixinCall", id |-> id]
SassMixin(id, params, body) ==
    [type |-> "SassMixin", id |-> id, params |-> params, body |-> body]
SassImport(path) == [type |-> "SassImport", path |-> path]
StyleSheet(children) == [type |-> "StyleSheet", children |-> children]

----------------------------------------------------------------------------
(* Module constants of build.js *)

FILE_BANNER == Comment(<<" Code generated by @carbon/themes. DO NOT EDIT.">>)
defaultTheme == "white"
defaultThemeMapName == <<"carbon--theme">>
TOKENS_ENTRYPOINT == "_tokens.scss"
MIXINS_ENTRYPOINT == "_mixins.scss"
MAPS_ENTRYPOINT == "_theme-maps.scss"
EntryPoints == {TOKENS_ENTRYPOINT, MIXINS_ENTRYPOINT, MAPS_ENTRYPOINT}

\* `carbon--theme--${name}`
ThemeMapName(name) == <<"carbon--theme--", name>>

----------------------------------------------------------------------------
(* build(): the three style sheets *)

\* slip: the entries taken from the canonical token list instead of the
\* theme's own keys
ThemeMapPropertiesInCanonicalOrder(theme) ==
    LET defined == SelectSeq(tokenColors,
                             LAMBDA token : \E j \in 1..Len(theme) : theme[j].token = token)
    IN  [i \in 1..Len(defined) |->
            LET j == CHOOSE j \in 1..Len(theme) : theme[j].token = defined[i]
            IN  SassMapProperty(Identifier(formatTokenName(defined[i])),
                                SassColor(theme[j].color))]

\* Object.keys(theme).map(token => t.SassMapProperty(...))
ThemeMapProperties(theme) ==
    [i \in 1..Len(theme) |->
        SassMapProperty(Identifier(formatTokenName(theme[i].token)),
                        SassColor(theme[i].color))]

\* the documentation comment and the map literal of one theme
ThemeMap(entry) ==
    <<Comment(<<"/ Carbon's ", entry.name, " color theme">>),
      Assignment(Identifier(ThemeMapName(entry.name)),
                 SassMap(ThemeMapProperties(entry.theme)),
                 TRUE, FALSE)>>

\* const themeMaps = Object.keys(themes).flatMap(...)
ThemeMaps(ths) == FlatMap(ThemeMap, ths)

\* slip: one assignment per token of the first theme instead of per canonical
\* token
MixinAssignmentsOfFirstTheme(colors) ==
    LET keys == IF themes = <<>> THEN <<>> ELSE themes[1].theme
    IN  [i \in 1..Len(keys) |->
            LET name == formatTokenName(keys[i].token)
            IN  Assignment(Identifier(name),
                           CallExpression(Identifier(<<"map-get">>),
                                          <<Identifier(<<"theme">>), SassString(name)>>),
                           FALSE, TRUE)]

\* $name: map-get($theme, 'name') !global, one per canonical token
MixinAssignments(colors) ==
    [i \in 1..Len(colors) |->
        LET name == formatTokenName(colors[i])
        IN  Assignment(Identifier(name),
                       CallExpression(Identifier(<<"map-get">>),
                                      <<Identifier(<<"theme">>), SassString(name)>>),
                       FALSE, TRUE)]

\* slip: the guard tests == instead of !=
ResetWhenDefault ==
    IfStatement(LogicalExpression(Identifier(<<"theme">>), "==",
                                  Identifier(defaultThemeMapName)),
                BlockStatement(<<SassMixinCall(Identifier(<<"carbon--theme">>))>>))

\* @if $theme != $carbon--theme { @include carbon--theme; }
ResetToDefault ==
    IfStatement(LogicalExpression(Identifier(<<"theme">>), "!=",
                                  Identifier(defaultThemeMapName)),
                BlockStatement(<<SassMixinCall(Identifier(<<"carbon--theme">>))>>))

\* slip: @content placed before the assignments
MixinBodyContentFirst(colors) ==
    <<AtContent>>
        \o MixinAssignments(colors)
        \o <<Comment(<<" Reset to default theme after apply in content">>),
             ResetToDefault>>

\* the body of @mixin carbon--theme($theme: $carbon--theme)
MixinBody(colors) ==
    MixinAssignments(colors)
        \o <<AtContent,
             Comment(<<" Reset to default theme after apply in content">>),
             ResetToDefault>>

ThemeMixin(colors) ==
    <<Comment(<<"/ Define theme variables from a map of tokens">>),
      SassMixin(Identifier(<<"carbon--theme">>),
                <<AssignmentPattern(Identifier(<<"theme">>),
                                    Identifier(defaultThemeMapName))>>,
                BlockStatement(MixinBody(colors)))>>

MixinsFile(colors) ==
    StyleSheet(<<FILE_BANNER, SassImport(<<"./theme-maps">>)>> \o ThemeMixin(colors))

RECURSIVE FindToken(_, _, _)
\* metadata.tokens.find(tok => tok.name === token) || {}
FindToken(tokens, token, i) ==
    IF i > Len(tokens)
        THEN [name |-> <<>>, role |-> None, alias |-> None, deprecated |-> None]
    ELSE IF tokens[i].name = token THEN tokens[i]
    ELSE FindToken(tokens, token, i + 1)

TypeComment == Comment(<<"/ @type Color", "/ @access public", "/ @group @carbon/themes">>)

\* tokenData.role && t.Comment(`/ ${tokenData.role.join('; ')}`): an array,
\* even an empty one, is truthy
RoleComment(tokenData) ==
    IF Len(tokenData.role) = 1
        THEN Some(Comment(<<"/", " ">> \o Join(tokenData.role[1], <<";", " ">>)))
        ELSE None

\* tokenData.alias && t.Comment(`/ @alias ${tokenData.alias}`)
AliasComment(tokenData) ==
    IF AliasTruthy(tokenData)
        THEN Some(Comment(<<"/ @alias ">> \o tokenData.alias[1]))
        ELSE None

\* tokenData.deprecated && t.Comment(`/ @deprecated`)
DeprecatedComment(tokenData) ==
    IF tokenData.deprecated = Some(TRUE)
        THEN Some(Comment(<<"/ @deprecated">>))
        ELSE None

\* $name: map-get($carbon--theme, 'name') !default
TokenAssignment(token) ==
    LET name == formatTokenName(token)
    IN  Assignment(Identifier(name),
                   CallExpression(Identifier(<<"map-get">>),
                                  <<Identifier(defaultThemeMapName), SassString(name)>>),
                   TRUE, FALSE)

\* slip: a token without a metadata entry gets no block at all
TokenBlockOnlyDocumented(token, meta) ==
    LET tokenData == FindToken(meta.tokens, token, 1)
    IN  IF tokenData.name # token
            THEN <<>>
            ELSE FilterBoolean(<<RoleComment(tokenData),
                                 Some(TypeComment),
                                 AliasComment(tokenData),
                                 DeprecatedComment(tokenData),
                                 Some(TokenAssignment(token))>>)

\* the documentation block and the assignment of one canonical token
TokenBlock(token, meta) ==
    LET tokenData == FindToken(meta.tokens, token, 1)
    IN  FilterBoolean(<<RoleComment(tokenData),
                        Some(TypeComment),
                        AliasComment(tokenData),
                        DeprecatedComment(tokenData),
                        Some(TokenAssignment(token))>>)

TokensFile(colors, meta) ==
    StyleSheet(<<FILE_BANNER, SassImport(<<"./theme-maps">>)>>
                   \o FlatMap(LAMBDA token : TokenBlock(token, meta), colors))

\* slip: the alias names the first theme of the table, not the default theme
AliasOfFirstTheme ==
    Assignment(Identifier(defaultThemeMapName),
               Identifier(ThemeMapName(IF themes = <<>> THEN defaultTheme
                                                        ELSE themes[1].name)),
               TRUE, FALSE)

\* $carbon--theme: $carbon--theme--white !default
DefaultThemeAlias ==
    Assignment(Identifier(defaultThemeMapName),
               Identifier(ThemeMapName(defaultTheme)),
               TRUE, FALSE)

ThemeMapsFile(ths) ==
    StyleSheet(<<FILE_BANNER>>
                   \o ThemeMaps(ths)
                   \o <<Comment(<<"/ Carbon's default theme", "/ @alias carbon--theme--",
                                  defaultTheme>>),
                        DefaultThemeAlias>>)

----------------------------------------------------------------------------
(* Inputs *)

\* the canonical token list enumerates each token once
TokenLists == {l \in SeqsOf(TokenNames, 0, MaxTokens) : Distinct(l)}

\* a theme table, as the list of its own properties in Object.keys order
ThemeTables ==
    {th \in SeqsOf([token : TokenNames, color : Colors], 0, MaxThemeKeys) :
        Distinct([i \in 1..Len(th) |-> th[i].token])}

ThemeNames == {"white", "g10"}

\* the theme table of ../lib, which may or may not hold the default theme
ThemesInputs ==
    {ths \in SeqsOf([name : ThemeNames, theme : ThemeTables], 0, Cardinality(ThemeNames)) :
        Distinct([i \in 1..Len(ths) |-> ths[i].name])}

\* one entry of metadata.tokens as build() meets it: every annotation absent,
\* empty or present
MetaNames == {<<"a", "1">>, <<"a", "B">>}
BuildEntries ==
    [name : MetaNames,
     role : {None, Some(<<>>), Some(<<<<"x">>, <<"a", "1">>>>)},
     alias : {None, Some(<<>>), Some(<<"a", "1">>)},
     deprecated : {None, Some(FALSE), Some(TRUE)}]

\* metadata.yml: unreadable, not YAML, YAML without a tokens list, or a list
\* with at most one entry per token
Parsed(tokens) == [kind |-> "ok", tokens |-> tokens]
Unparsed == {[kind |-> k, tokens |-> <<>>] : k \in {"unreadable", "malformed", "noTokens"}}
BuildMetadata ==
    {Parsed(ts) : ts \in {l \in SeqsOf(BuildEntries, 0, MaxMetaTokens) :
                             Distinct([i \in 1..Len(l) |-> l[i].name])}}

BaseThemes ==
    {<<[name |-> "white", theme |-> <<[token |-> <<"a", "1">>, color |-> "#ffffff"]>>]>>}
BaseTokenLists == {<<<<"a", "B">>, <<"a">>>>}
BaseMetadata == {Parsed(<<>>)}

\* the inputs of a run: the theme table varied, or the token list and the
\* metadata varied (the theme maps read only the former, the token defaults
\* only the latter), or a metadata file that does not load
BuildInputs ==
    (ThemesInputs \X BaseTokenLists \X BaseMetadata)
        \cup (BaseThemes \X TokenLists \X BuildMetadata)
        \cup (BaseThemes \X BaseTokenLists \X Unparsed)

----------------------------------------------------------------------------
(* The run of build.js *)

SassIdle ==
    /\ sassGlobals = <<>>
    /\ sassStack = <<>>
    /\ sassDefault = <<>>
    /\ sassArg = <<>>
    /\ sassPhase = "none"
    /\ sassCalls = 0

InitBuild ==
    /\ \E in \in BuildInputs :
        /\ themes = in[1]
        /\ tokenColors = in[2]
        /\ metadataFile = in[3]
    /\ metadata = [tokens |-> <<>>]
    /\ applications = 0
    /\ pc = "start"
    /\ tokensFile = None
    /\ mixinsFile = None
    /\ themeMapsFile = None
    /\ disk = {}
    /\ reported = <<>>
    /\ stderr = <<>>
    /\ rejection = ""
    /\ exitCode = -1
    /\ SassIdle

\* what loading and transforming the metadata throws, "" when nothing
LoadError(file) ==
    CASE file.kind = "unreadable" -> "ENOENT"
      [] file.kind = "malformed" -> "YAMLException"
      [] file.kind = "noTokens" -> "TypeError"
      [] OTHER -> ""

\* build() up to its first await: reporter.info, the metadata loaded and
\* transformed, the three trees built, fs.ensureDir called
Start ==
    /\ pc = "start"
    /\ reported' = Append(reported, "info")
    /\ IF LoadError(metadataFile) # ""
          THEN /\ pc' = "rejected"
               /\ rejection' = LoadError(metadataFile)
               /\ UNCHANGED <<metadata, applications, tokensFile, mixinsFile,
                              themeMapsFile>>
          ELSE /\ metadata' = transformMetadata([tokens |-> metadataFile.tokens])
               /\ applications' = applications + 1
               /\ tokensFile' = Some(TokensFile(tokenColors, metadata'))
               /\ mixinsFile' = Some(MixinsFile(tokenColors))
               /\ themeMapsFile' = Some(ThemeMapsFile(themes))
               /\ pc' = "ensureDir"
               /\ UNCHANGED rejection
    /\ UNCHANGED <<inputVars, disk, stderr, exitCode, sassVars>>

\* an awaited fs call settles: fulfilled, build() goes on to `next` having
\* created `path`; rejected, build() rejects with the error
Settle(at, path, next, ok) ==
    /\ pc = at
    /\ IF ok
          THEN /\ disk' = disk \cup {path}
               /\ pc' = next
               /\ UNCHANGED rejection
          ELSE /\ pc' = "rejected"
               /\ rejection' = "EACCES"
               /\ UNCHANGED disk
    /\ UNCHANGED <<inputVars, metadata, applications, tokensFile, mixinsFile,
                   themeMapsFile, stderr, exitCode, sassVars>>

EnsureDir ==
    \E ok \in BOOLEAN :
        Settle("ensureDir", "scss", "writeTokens", ok) /\ UNCHANGED reported

WriteTokens ==
    \E ok \in BOOLEAN :
        Settle("writeTokens", TOKENS_ENTRYPOINT, "writeMixins", ok) /\ UNCHANGED reported

WriteMixins ==
    \E ok \in BOOLEAN :
        Settle("writeMixins", MIXINS_ENTRYPOINT, "writeMaps", ok) /\ UNCHANGED reported

\* after the last write build() reports success and its promise is fulfilled
WriteMaps ==
    \E ok \in BOOLEAN :
        /\ Settle("writeMaps", MAPS_ENTRYPOINT, "fulfilled", ok)
        /\ reported' = IF ok THEN Append(reported, "success") ELSE reported

\* build().catch(error => { console.error(error); })
Catch ==
    /\ pc = "rejected"
    /\ stderr' = Append(stderr, rejection)
    /\ pc' = "caught"
    /\ UNCHANGED <<inputVars, metadata, applications, tokensFile, mixinsFile,
                   themeMapsFile, disk, reported, rejection, exitCode, sassVars>>

\* nothing is left to run: node exits. The rejection was handled, and nothing
\* assigns process.exitCode or calls process.exit, so the status is 0
Exit ==
    /\ pc \in {"fulfilled", "caught"}
    /\ pc' = "exited"
    /\ exitCode' = 0
    /\ UNCHANGED <<inputVars, metadata, applications, tokensFile, mixinsFile,
                   themeMapsFile, disk, reported, stderr, rejection, sassVars>>

Next ==
    \/ Start
    \/ EnsureDir
    \/ WriteTokens
    \/ WriteMixins
    \/ WriteMaps
    \/ Catch
    \/ Exit

Spec == InitBuild /\ [][Next]_vars

----------------------------------------------------------------------------
(* Reading the built style sheets *)

Built == Len(tokensFile) = 1 /\ Len(mixinsFile) = 1 /\ Len(themeMapsFile) = 1
Children(file) == file[1].children
IsAssignment(node) == node.type = "Assignment"
IsMapLiteral(node) == node.type = "Assignment" /\ node.init.type = "SassMap"
IsMixin(node) == node.type = "SassMixin"
Last(s) == s[Len(s)]

\* the statements of the generated mixin
GeneratedMixin == SelectSeq(Children(mixinsFile), IsMixin)[1]
GeneratedBody == GeneratedMixin.body.body
ContentAt(body) == CHOOSE i \in 1..Len(body) : body[i].type = "AtContent"

\* the metadata entry of a token after the transformation, <<>> if none
EntriesOf(token) ==
    SelectSeq(metadata.tokens, LAMBDA entry : entry.name = token)

----------------------------------------------------------------------------
(* Claims about the generated style sheets *)

\* C1: for every theme of the theme table, the map literal
\* carbon--theme--<name> is a !default declaration whose entries are, one per
\* key of the theme's own table and in that table's order, the key's
\* canonical name with the theme's color for the key, and nothing else.
ThemeMapEntriesFollowThemeTable ==
    Built =>
        LET literals == SelectSeq(Children(themeMapsFile), IsMapLiteral)
        IN  /\ Len(literals) = Len(themes)
            /\ \A i \in 1..Len(themes) :
                LET theme == themes[i].theme
                    properties == literals[i].init.properties
                IN  /\ literals[i].id = Identifier(<<"carbon--theme--", themes[i].name>>)
                    /\ literals[i].default
                    /\ ~literals[i].global
                    /\ Len(properties) = Len(theme)
                    /\ \A j \in 1..Len(theme) :
                        /\ properties[j].key = Identifier(formatTokenName(theme[j].token))
                        /\ properties[j].value = SassColor(theme[j].color)

\* a theme listing two tokens in the opposite order of the canonical list
ThemeOrderDiffersFromCanonical ==
    /\ Built
    /\ tokenColors = <<<<"a", "B">>, <<"a">>>>
    /\ \E i \in 1..Len(themes) :
        /\ Len(themes[i].theme) = 2
        /\ themes[i].theme[1].token = <<"a">>
        /\ themes[i].theme[2].token = <<"a", "B">>
        /\ themes[i].theme[1].color # themes[i].theme[2].color

\* the variable assignment every canonical token must get in _tokens.scss
ExpectedDefault(token) ==
    [type |-> "Assignment",
     id |-> [type |-> "Identifier", name |-> formatTokenName(token)],
     init |-> [type |-> "CallExpression",
               callee |-> [type |-> "Identifier", name |-> <<"map-get">>],
               arguments |-> <<[type |-> "Identifier", name |-> <<"carbon--theme">>],
                               [type |-> "SassString", value |-> formatTokenName(token)]>>],
     default |-> TRUE,
     global |-> FALSE]

\* C2: the token-defaults document holds exactly one assignment per canonical
\* token, in canonical order, each a !default assignment of
\* map-get(carbon--theme, <canonical name>), with or without metadata for the
\* token and whether or not a theme defines it.
TokenDefaultsFollowCanonicalList ==
    Built =>
        LET assignments == SelectSeq(Children(tokensFile), IsAssignment)
        IN  /\ Len(assignments) = Len(tokenColors)
            /\ \A i \in 1..Len(tokenColors) :
                assignments[i] = ExpectedDefault(tokenColors[i])

\* two canonical tokens, one with a metadata entry and one without, one of
\* them defined by no theme
TokenWithoutMetadataOrTheme ==
    /\ Built
    /\ Len(tokenColors) = 2
    /\ \E i, j \in 1..2 :
        /\ EntriesOf(tokenColors[i]) # <<>>
        /\ EntriesOf(tokenColors[j]) = <<>>
    /\ \E i \in 1..2 : \A t \in 1..Len(themes) : \A k \in 1..Len(themes[t].theme) :
        themes[t].theme[k].token # tokenColors[i]

\* C3: before @content the mixin body holds exactly one !global assignment
\* per canonical token, in canonical order, each of map-get($theme,
\* <canonical name>) to the canonical-named variable; the block is fixed by
\* the canonical list alone, whatever the theme table, and matches the
\* variables of the token-defaults document one for one.
MixinAssignsEveryCanonicalToken ==
    Built =>
        LET body == GeneratedBody
            defaults == SelectSeq(Children(tokensFile), IsAssignment)
        IN  /\ Cardinality({i \in 1..Len(body) : body[i].type = "AtContent"}) = 1
            /\ ContentAt(body) = Len(tokenColors) + 1
            /\ \A i \in 1..Len(body) : IsAssignment(body[i]) => i < ContentAt(body)
            /\ Len(defaults) = Len(tokenColors)
            /\ \A i \in 1..Len(tokenColors) :
                LET name == formatTokenName(tokenColors[i])
                IN  /\ IsAssignment(body[i])
                    /\ body[i].id = [type |-> "Identifier", name |-> name]
                    /\ body[i].global
                    /\ ~body[i].default
                    /\ body[i].init.callee.name = <<"map-get">>
                    /\ body[i].init.arguments =
                           <<[type |-> "Identifier", name |-> <<"theme">>],
                             [type |-> "SassString", value |-> name]>>
                    /\ body[i].id = defaults[i].id

\* the mixin built for two canonical tokens while the theme table is empty
MixinBuiltWithoutThemes ==
    /\ Built
    /\ themes = <<>>
    /\ Len(tokenColors) = 2

\* the alias is the last declaration of _theme-maps.scss
AliasIsLast ==
    Last(Children(themeMapsFile)) =
        [type |-> "Assignment",
         id |-> [type |-> "Identifier", name |-> <<"carbon--theme">>],
         init |-> [type |-> "Identifier", name |-> <<"carbon--theme--", "white">>],
         default |-> TRUE,
         global |-> FALSE]

\* the identifier the alias names is declared as a map literal before it
AliasResolves ==
    LET children == Children(themeMapsFile)
    IN  \E j \in 1..(Len(children) - 1) :
            /\ IsMapLiteral(children[j])
            /\ children[j].id = Last(children).init

\* C9 as stated: in every run the alias ends the document and names a map
\* literal declared earlier in it.
DefaultAliasAlwaysResolves == Built => AliasIsLast /\ AliasResolves

\* C9 amended: the alias always ends the document and names
\* carbon--theme--white; that name is declared earlier in the document
\* exactly when the theme table holds a theme named white.
DefaultAliasResolvesIffThemePresent ==
    Built =>
        /\ AliasIsLast
        /\ AliasResolves <=> \E i \in 1..Len(themes) : themes[i].name = "white"

\* the default theme declared after another theme
DefaultThemeAmongTwo ==
    /\ Built
    /\ Len(themes) = 2
    /\ themes[2].name = "white"

\* the documentation block and assignment C10 describes for a token
ExpectedBlock(token) ==
    LET found == EntriesOf(token)
        has == found # <<>>
        data == found[1]
        roleLines == IF has /\ Len(data.role) = 1 THEN data.role[1] ELSE <<>>
        alias == IF has /\ Len(data.alias) = 1 THEN data.alias[1] ELSE <<>>
        deprecated == has /\ data.deprecated = <<TRUE>>
    IN  (IF roleLines # <<>>
             THEN <<[type |-> "Comment",
                     value |-> <<"/", " ">> \o Join(roleLines, <<";", " ">>)]>>
             ELSE <<>>)
        \o <<[type |-> "Comment",
              value |-> <<"/ @type Color", "/ @access public", "/ @group @carbon/themes">>]>>
        \o (IF alias # <<>>
                THEN <<[type |-> "Comment", value |-> <<"/ @alias ">> \o alias]>>
                ELSE <<>>)
        \o (IF deprecated
                THEN <<[type |-> "Comment", value |-> <<"/ @deprecated">>]>>
                ELSE <<>>)
        \o <<ExpectedDefault(token)>>

\* C10: each token's block is, in order, a role comment (only if the metadata
\* has role lines), the fixed type comment, an @alias comment (only if there
\* is an alias), an @deprecated comment (only if deprecated), then the
\* assignment; an absent or empty annotation yields no comment at all.
TokenBlocksOmitEmptyAnnotations ==
    Built =>
        LET children == Children(tokensFile)
        IN  SubSeq(children, 3, Len(children)) = FlatMap(ExpectedBlock, tokenColors)

\* C8: a run in which a step of build() failed prints the error, never
\* reports success, and exits with a non-zero status.
FailedRunExitsNonZero ==
    (pc = "exited" /\ rejection # "") =>
        /\ stderr = <<rejection>>
        /\ \A i \in 1..Len(reported) : reported[i] # "success"
        /\ exitCode # 0

----------------------------------------------------------------------------
(* transformMetadata applied to a metadata object, once and again *)

RoleChars == {"a", "B", "1", " "}
RoleLines == SeqsOf(RoleChars, 0, MaxRoleLen)

\* entries whose role is absent or one line of text, alias absent or a token
TransformEntries ==
    [name : TokenNames,
     role : {None} \cup {Some(<<line>>) : line \in RoleLines},
     alias : {None} \cup {Some(name) : name \in TokenNames},
     deprecated : {None}]

TransformInputs ==
    {l \in SeqsOf(TransformEntries, 1, MaxNames) :
        Distinct([i \in 1..Len(l) |-> l[i].name])}

InitTransform ==
    /\ \E tokens \in TransformInputs :
        /\ metadataFile = Parsed(tokens)
        /\ metadata = [tokens |-> tokens]
    /\ applications = 0
    /\ themes = <<>>
    /\ tokenColors = <<>>
    /\ pc = "idle"
    /\ tokensFile = None
    /\ mixinsFile = None
    /\ themeMapsFile = None
    /\ disk = {}
    /\ reported = <<>>
    /\ stderr = <<>>
    /\ rejection = ""
    /\ exitCode = -1
    /\ SassIdle

\* metadata = transformMetadata(metadata): the object is rewritten in place
Transform ==
    /\ applications < MaxApplications
    /\ metadata' = transformMetadata(metadata)
    /\ applications' = applications + 1
    /\ UNCHANGED <<inputVars, buildVars, sassVars>>

NextTransform == Transform

SpecTransform == InitTransform /\ [][NextTransform]_vars

\* C4: transformMetadata is idempotent: applied to its own result it changes
\* no role line and no alias.
TransformIsIdempotent ==
    [][applications >= 1 => metadata' = metadata]_vars

\* some other known token name is a proper substring of `name`
HasShorterName(name) ==
    \E i \in 1..Len(metadataFile.tokens) :
        LET short == metadataFile.tokens[i].name
        IN  /\ Len(short) < Len(name)
            /\ \E k \in 1..(Len(name) - Len(short) + 1) : MatchAt(name, k, short)

\* C5: a role line that is a known token name containing a shorter known
\* name is replaced as a whole by the longer token's wrapped canonical form,
\* whatever the order of the two entries.
LongerNameReplacedWhole ==
    applications = 1 =>
        \A i, n \in 1..Len(metadataFile.tokens) :
            LET raw == metadataFile.tokens[i]
                name == metadataFile.tokens[n].name
            IN  (raw.role = <<<<name>>>> /\ HasShorterName(name)) =>
                    metadata.tokens[i].role =
                        <<<<<<Backquote, "$">> \o formatTokenName(name) \o <<Backquote>>>>>>

----------------------------------------------------------------------------
(* Sass: a consumer's style sheet includes the generated mixin *)

\* the value of a map literal: canonical name -> color
EvalMap(literal) ==
    LET properties == literal.init.properties
    IN  [key \in {properties[j].key.name : j \in 1..Len(properties)} |->
            LET j == CHOOSE j \in 1..Len(properties) : properties[j].key.name = key
            IN  properties[j].value.value]

\* $carbon--theme once _theme-maps.scss is loaded: the map literal its alias
\* names
EvalDefaultTheme(file) ==
    LET children == file[1].children
        alias == Last(children)
        j == CHOOSE j \in 1..Len(children) :
                 IsMapLiteral(children[j]) /\ children[j].id = alias.init
    IN  EvalMap(children[j])

\* map-get($map, key): null when the map has no such key
MapGet(map, key) == IF key \in DOMAIN map THEN map[key] ELSE "null"

\* a variable read inside the mixin: the parameter, or a global
EvalVariable(id, frame) ==
    IF id.name = <<"theme">> THEN frame.theme ELSE sassDefault

\* map-get(<variable>, '<name>')
EvalCall(call, frame) ==
    MapGet(EvalVariable(call.arguments[1], frame), call.arguments[2].value)

\* $a != $b, $a == $b: Sass compares maps by content
EvalTest(test, frame) ==
    LET left == EvalVariable(test.left, frame)
        right == EvalVariable(test.right, frame)
    IN  IF test.operator = "!=" THEN left # right ELSE left = right

\* the frame of an invocation; without an argument the parameter takes its
\* default, $theme: $carbon--theme
NewFrame(arg, content) ==
    [theme |-> IF arg = None
                   THEN EvalVariable(GeneratedMixin.params[1].right, [theme |-> <<>>])
                   ELSE arg[1],
     pc |-> 1,
     content |-> content]

Top == sassStack[Len(sassStack)]
Statement == GeneratedBody[Top.pc]
Advance == [sassStack EXCEPT ![Len(sassStack)].pc = @ + 1]
Running == sassPhase = "running" /\ sassStack # <<>>
AtStatement(type) ==
    Running /\ Top.pc <= Len(GeneratedBody) /\ Statement.type = type

CanonicalNames == {formatTokenName(name) : name \in TokenNames}
SassMaps == UNION {[keys -> Colors] : keys \in SUBSET CanonicalNames}

\* one theme table per set of keys: Sass maps do not compare by order
SassTables ==
    {th \in ThemeTables : \A i \in 1..(Len(th) - 1) : Len(th[i].token) <= Len(th[i + 1].token)
                              /\ (Len(th[i].token) = Len(th[i + 1].token)
                                      => th[i].token[2] = "1")}

\* build.js has run for some token list and default theme; the consumer has
\* imported _mixins.scss and is about to include carbon--theme, with no
\* argument or with a map
InitSass ==
    /\ tokenColors \in TokenLists
    /\ \E th \in SassTables : themes = <<[name |-> defaultTheme, theme |-> th]>>
    /\ metadataFile = Parsed(<<>>)
    /\ metadata = [tokens |-> <<>>]
    /\ applications = 1
    /\ pc = "exited"
    /\ tokensFile = Some(TokensFile(tokenColors, metadata))
    /\ mixinsFile = Some(MixinsFile(tokenColors))
    /\ themeMapsFile = Some(ThemeMapsFile(themes))
    /\ disk = {"scss"} \cup EntryPoints
    /\ reported = <<"info", "success">>
    /\ stderr = <<>>
    /\ rejection = ""
    /\ exitCode = 0
    /\ sassGlobals = <<>>
    /\ sassStack = <<>>
    /\ sassDefault = EvalDefaultTheme(themeMapsFile)
    /\ sassArg \in {None} \cup {Some(map) : map \in SassMaps}
    /\ sassPhase = "before"
    /\ sassCalls = 0

\* @include carbon--theme(...) { content } in the consumer's style sheet
Include ==
    /\ sassPhase = "before"
    /\ sassStack' = <<NewFrame(sassArg, TRUE)>>
    /\ sassPhase' = "running"
    /\ UNCHANGED <<inputVars, metadata, applications, buildVars, sassGlobals,
                   sassDefault, sassArg, sassCalls>>

\* $name: map-get($theme, 'name') !global
ExecAssignment ==
    /\ AtStatement("Assignment")
    /\ LET name == Statement.id.name
           value == EvalCall(Statement.init, Top)
       IN  sassGlobals' =
               IF Statement.global
                   THEN [n \in DOMAIN sassGlobals \cup {name} |->
                            IF n = name THEN value ELSE sassGlobals[n]]
                   ELSE sassGlobals
    /\ sassStack' = Advance
    /\ UNCHANGED <<inputVars, metadata, applications, buildVars, sassDefault,
                   sassArg, sassPhase, sassCalls>>

\* @content: the block passed to the include is evaluated, if there is one
ExecContent ==
    /\ AtStatement("AtContent")
    /\ IF Top.content
          THEN sassPhase' = "content" /\ UNCHANGED sassStack
          ELSE sassStack' = Advance /\ UNCHANGED sassPhase
    /\ UNCHANGED <<inputVars, metadata, applications, buildVars, sassGlobals,
                   sassDefault, sassArg, sassCalls>>

\* the content block, which rebinds no token variable, has been evaluated
LeaveContent ==
    /\ sassPhase = "content"
    /\ sassPhase' = "running"
    /\ sassStack' = Advance
    /\ UNCHANGED <<inputVars, metadata, applications, buildVars, sassGlobals,
                   sassDefault, sassArg, sassCalls>>

ExecComment ==
    /\ AtStatement("Comment")
    /\ sassStack' = Advance
    /\ UNCHANGED <<inputVars, metadata, applications, buildVars, sassGlobals,
                   sassDefault, sassArg, sassPhase, sassCalls>>

\* @if <test> { @include carbon--theme; }: the nested include passes neither
\* an argument nor a content block; Sass gives up at its stack limit
ExecIf ==
    /\ AtStatement("IfStatement")
    /\ IF EvalTest(Statement.test, Top)
          THEN IF Len(sassStack) < MaxDepth
                  THEN /\ sassStack' = Append(Advance, NewFrame(None, FALSE))
                       /\ sassCalls' = sassCalls + 1
                       /\ UNCHANGED sassPhase
                  ELSE /\ sassPhase' = "error"
                       /\ UNCHANGED <<sassStack, sassCalls>>
          ELSE /\ sassStack' = Advance
               /\ UNCHANGED <<sassPhase, sassCalls>>
    /\ UNCHANGED <<inputVars, metadata, applications, buildVars, sassGlobals,
                   sassDefault, sassArg>>

\* the end of the body: the invocation returns to its caller
Return ==
    /\ Running
    /\ Top.pc > Len(GeneratedBody)
    /\ sassStack' = SubSeq(sassStack, 1, Len(sassStack) - 1)
    /\ sassPhase' = IF Len(sassStack) = 1 THEN "after" ELSE sassPhase
    /\ UNCHANGED <<inputVars, metadata, applications, buildVars, sassGlobals,
                   sassDefault, sassArg, sassCalls>>

NextSass ==
    \/ Include
    \/ ExecAssignment
    \/ ExecContent
    \/ LeaveContent
    \/ ExecComment
    \/ ExecIf
    \/ Return

\* the Sass compiler runs the style sheet to its end
SpecSass == InitSass /\ [][NextSass]_vars /\ WF_vars(NextSass)

\* the map the caller's invocation runs with
CallerTheme == IF sassArg = None THEN sassDefault ELSE sassArg[1]

\* C6: executing the mixin terminates with at most one nested invocation:
\* exactly one, without argument and so with the default map, when the
\* caller's map differs from the default map, and none otherwise; the nested
\* invocation never invokes the mixin again.
MixinTerminatesAfterOneReset ==
    /\ [](/\ Len(sassStack) <= 2
          /\ sassCalls <= 1
          /\ sassPhase # "error"
          /\ Len(sassStack) = 2 => sassStack[2].theme = sassDefault)
    /\ <>(sassPhase = "after")
    /\ [](sassPhase = "after" =>
              sassCalls = IF CallerTheme # sassDefault THEN 1 ELSE 0)

\* a completed include of a non-default theme, which made its nested call
NestedResetCompleted ==
    /\ sassPhase = "after"
    /\ sassArg # None
    /\ CallerTheme # sassDefault
    /\ sassCalls = 1

\* C7: while the caller's content is evaluated every canonical token's global
\* variable holds the passed map's value for the token's canonical name, and
\* once the include has completed each holds the default map's value.
ThemeAppliedThenRestored ==
    /\ sassPhase = "content" =>
        \A i \in 1..Len(tokenColors) :
            LET name == formatTokenName(tokenColors[i])
            IN  name \in DOMAIN sassGlobals
                    /\ sassGlobals[name] = MapGet(CallerTheme, name)
    /\ sassPhase = "after" =>
        \A i \in 1..Len(tokenColors) :
            LET name == formatTokenName(tokenColors[i])
            IN  name \in DOMAIN sassGlobals
                    /\ sassGlobals[name] = MapGet(sassDefault, name)

\* content evaluated under a theme that differs from the default on a
\* canonical token
ContentUnderOtherTheme ==
    /\ sassPhase = "content"
    /\ \E i \in 1..Len(tokenColors) :
        LET name == formatTokenName(tokenColors[i])
        IN  MapGet(CallerTheme, name) # MapGet(sassDefault, name)

============================================================================
